---- MODULE Spec2Model ----
(***************************************************************************)
(* Thumbnail conversion service of allmark                                 *)
(* (services/thumbnail/service.go): the index of built thumbnails, the     *)
(* worker that walks the repository and builds the missing ones, the       *)
(* notification loop and the two shutdown hooks.                           *)
(***************************************************************************)
EXTENDS Integers, Sequences, FiniteSets, TLC

VARIABLES
    proc,          \* "down" | "up" | "crashed": the process
    service,       \* TRUE iff NewConversionService returned a service
    isRunning,     \* ConversionService.isRunning
    index,         \* ConversionService.index (route -> dimension key -> Thumb)
    disk,          \* the thumbnail.index file: [ok |-> BOOLEAN, index |-> Index]
    repo,          \* the repository: a sequence of items, each a sequence of files
    pc,            \* position of the worker goroutine(s)
    initial,       \* TRUE while the pass in progress is the startup pass
    passFiles,     \* the files the pass in progress enumerates, in order
    fi,            \* position in passFiles of the file being processed
    di,            \* position in Dimensions of the next createThumbnail call
    subscribed,    \* TRUE once AfterReindex(updateChannel) was called
    chan,          \* number of signals buffered in updateChannel (capacity 1)
    sd,            \* shutdown progress: "none" | "stop" | "save"
    openCalls,     \* <<file, dimension>> -> number of output targets opened
    written,       \* names of the output files a resize has written
    resizeCalls,   \* <<file, dimension>> -> number of Resize invocations
    lifeResize,    \* the same, counted since the process was last started
    lastCall,      \* what the most recent createThumbnail call did
    classFailed,   \* MimeType() failed at an earlier dimension of the current file
    passFailed,    \* some createThumbnail call of the pass in progress failed
    repeat,        \* the pass in progress enumerates the same files as the pass
                   \* before it, which was "clean" or "dirty" (failures); or "no"
    passesStarted, \* number of createThumbnails calls started by this process
    booted,        \* TRUE once NewConversionService was called
    loadedEmpty,   \* TRUE iff this process started with an empty index
    events,        \* number of environment events so far: reindex notifications,
                   \* collaborator errors, restarts of the process
    emitted,       \* notifications the repository emitted since the process started
    boot,          \* what the last NewConversionService call met: the error of
                   \* loadIndex and the result of CreateDirectory
    passRepo,      \* the repository as the pass in progress enumerates it
    calls,         \* the createThumbnail calls of the pass in progress, in order
    owed           \* a notification emitted during a pass: "no" | "initial" |
                   \* "loop" (pass it arrived in) | "dead" (process ended first)

vars == <<proc, service, isRunning, index, disk, repo, pc, initial, passFiles,
          fi, di, subscribed, chan, sd, openCalls, written, resizeCalls,
          lifeResize, lastCall, classFailed, passFailed, repeat,
          passesStarted, booted, loadedEmpty, events, emitted, boot,
          passRepo, calls, owed>>

(***************************************************************************)
(* Bounds of the model.                                                    *)
(***************************************************************************)
MaxEvents == 2

(***************************************************************************)
(* Strings are sequences of one-character strings, so that formatting and  *)
(* route combination are computed, not assumed.                            *)
(***************************************************************************)
Digit(d) == <<"0", "1", "2", "3", "4", "5", "6", "7", "8", "9">>[d + 1]

RECURSIVE DecStr(_)
DecStr(n) == IF n < 10 THEN <<Digit(n)>>
             ELSE DecStr(n \div 10) \o <<Digit(n % 10)>>

(***************************************************************************)
(* The repository's files.  Each file has an id, a parent route, a route   *)
(* and a media type.                                                       *)
(***************************************************************************)
Files == {"f1", "f2", "f3"}

FileId(f) == CASE f = "f1" -> <<"a">>
               [] f = "f2" -> <<"b">>
               [] f = "f3" -> <<"c">>

FileParent(f) == CASE f = "f1" -> <<"d">>
                   [] f = "f2" -> <<"d">>
                   [] f = "f3" -> <<"e">>

FileRoute(f) == CASE f = "f1" -> <<"p">>
                  [] f = "f2" -> <<"t">>
                  [] f = "f3" -> <<"q">>

FileMime(f) == CASE f = "f1" -> "image/jpeg"
                 [] f = "f2" -> "text/plain"
                 [] f = "f3" -> "image/png"

Repos == { << <<"f1", "f2">> >>,
           << <<"f2">>, <<"f3">> >> }

RECURSIVE Flatten(_)
Flatten(items) == IF items = <<>> THEN <<>>
                  ELSE Head(items) \o Flatten(Tail(items))

(***************************************************************************)
(* The fixed list of dimensions of createThumbnails.                       *)
(***************************************************************************)
DimensionsReordered == << <<400, 0>>, <<200, 0>>, <<800, 0>> >>

Dimensions == << <<200, 0>>, <<400, 0>>, <<800, 0>> >>

(***************************************************************************)
(* imageconversion and route helpers.                                      *)
(***************************************************************************)
MimeTypeIsSupported(mimeType) == mimeType \in {"image/jpeg", "image/png", "image/gif"}

GetFileExtensionFromMimeType(mimeType) ==
    CASE mimeType = "image/jpeg" -> <<"j", "p", "g">>
      [] mimeType = "image/png"  -> <<"p", "n", "g">>
      [] mimeType = "image/gif"  -> <<"g", "i", "f">>
      [] OTHER                   -> <<>>

Combine(parent, route) == parent \o <<"/">> \o route

DimensionsString(dim) == DecStr(dim.MaxWidth) \o <<"x">> \o DecStr(dim.MaxHeight)

newThumb(route, name, maxWidth, maxHeight) ==
    [Route |-> route, Name |-> name,
     Dimensions |-> [MaxWidth |-> maxWidth, MaxHeight |-> maxHeight]]

Filename(f, maxWidth, maxHeight, ext) ==
    FileId(f) \o <<"-">> \o DecStr(maxWidth) \o <<"-">> \o DecStr(maxHeight)
              \o <<".">> \o ext

(***************************************************************************)
(* The index: a map from route to a map from dimension key to Thumb.       *)
(***************************************************************************)
EmptyIndex == <<>>

MapPut(m, k, v) == [x \in (DOMAIN m) \cup {k} |-> IF x = k THEN v ELSE m[x]]

isInIndexWrongKey(idx, thumb) ==
    IF thumb.Route \notin DOMAIN idx THEN FALSE
    ELSE thumb.Name \in DOMAIN idx[thumb.Route]

isInIndex(idx, thumb) ==
    IF thumb.Route \notin DOMAIN idx THEN FALSE
    ELSE DimensionsString(thumb.Dimensions) \in DOMAIN idx[thumb.Route]

addToIndexFresh(idx, thumb) ==
    MapPut(idx, thumb.Route,
           MapPut(<<>>, DimensionsString(thumb.Dimensions), thumb))

addToIndex(idx, thumb) ==
    LET thumbs == IF thumb.Route \in DOMAIN idx THEN idx[thumb.Route] ELSE <<>>
    IN  MapPut(idx, thumb.Route,
               MapPut(thumbs, DimensionsString(thumb.Dimensions), thumb))

(***************************************************************************)
(* Persistence of the index.                                               *)
(***************************************************************************)
NoFile == [present |-> FALSE, index |-> EmptyIndex]

loadIndex(file, readErr) ==
    IF file.present /\ readErr = "nil"
    THEN [index |-> file.index, err |-> "nil"]
    ELSE [index |-> EmptyIndex, err |-> "IndexUnavailable"]

saveIndex(idx, file, writeErr) ==
    IF writeErr = "nil" THEN [present |-> TRUE, index |-> idx] ELSE file

(***************************************************************************)
(* createThumbnail.  env holds what the collaborators return in this call: *)
(* the errors of file.MimeType(), route.Combine, fsutil.OpenFile and       *)
(* imageconversion.Resize ("nil" for success).                             *)
(***************************************************************************)
Errors == {"nil", "error"}

NoError == [mimeErr |-> "nil", combineErr |-> "nil", openErr |-> "nil",
            resizeErr |-> "nil"]

\* A call stops at its first error, so one error per call is every case.
Envs == {NoError,
         [NoError EXCEPT !.mimeErr = "error"],
         [NoError EXCEPT !.combineErr = "error"],
         [NoError EXCEPT !.openErr = "error"],
         [NoError EXCEPT !.resizeErr = "error"]}

Event(cond) == IF cond THEN 1 ELSE 0

mimeTypeCheckNoSupportTest(mimeErr, mimeType) ==
    IF mimeErr # "nil" THEN "MimeTypeDetectionFailed" ELSE "ok"

mimeTypeCheckIgnoreError(mimeErr, mimeType) ==
    IF ~MimeTypeIsSupported(mimeType) THEN "UnsupportedMediaType" ELSE "ok"

mimeTypeCheck(mimeErr, mimeType) ==
    IF mimeErr # "nil" THEN "MimeTypeDetectionFailed"
    ELSE IF ~MimeTypeIsSupported(mimeType) THEN "UnsupportedMediaType"
    ELSE "ok"

\* Evaluating err.Error() for the log line: a nil error has no Error().
ErrorText(err) == IF err = "nil" THEN "panic" ELSE "text"

createThumbnailNoReturnOnOpenError(idx, f, maxWidth, maxHeight, env) ==
    LET mimeType      == FileMime(f)
        fileExtension == GetFileExtensionFromMimeType(mimeType)
        filename      == Filename(f, maxWidth, maxHeight, fileExtension)
        fullFileRoute == Combine(FileParent(f), FileRoute(f))
        thumb         == newThumb(fullFileRoute, filename, maxWidth, maxHeight)
        check         == mimeTypeCheck(env.mimeErr, mimeType)
        err           == env.openErr
        skip(why)     == [outcome |-> why, index |-> idx, opened |-> FALSE,
                          resized |-> FALSE, written |-> {}, panic |-> FALSE]
    IN  IF check # "ok" THEN skip(check)
        ELSE IF env.combineErr # "nil" THEN skip("InvalidRoute")
        ELSE IF isInIndex(idx, thumb) THEN skip("CacheHit")
        ELSE IF env.openErr # "nil"
             THEN [outcome |-> "OutputOpenFailed", index |-> addToIndex(idx, thumb),
                   opened |-> FALSE, resized |-> FALSE, written |-> {},
                   panic |-> FALSE]
        ELSE IF env.resizeErr # "nil"
             THEN [outcome |-> "ResizeFailed", index |-> idx, opened |-> TRUE,
                   resized |-> TRUE, written |-> {},
                   panic |-> (ErrorText(err) = "panic")]
        ELSE [outcome |-> "Built", index |-> addToIndex(idx, thumb),
              opened |-> TRUE, resized |-> TRUE, written |-> {filename},
              panic |-> FALSE]

createThumbnail(idx, f, maxWidth, maxHeight, env) ==
    LET mimeType      == FileMime(f)
        fileExtension == GetFileExtensionFromMimeType(mimeType)
        filename      == Filename(f, maxWidth, maxHeight, fileExtension)
        fullFileRoute == Combine(FileParent(f), FileRoute(f))
        thumb         == newThumb(fullFileRoute, filename, maxWidth, maxHeight)
        check         == mimeTypeCheck(env.mimeErr, mimeType)
        err           == env.openErr
        skip(why)     == [outcome |-> why, index |-> idx, opened |-> FALSE,
                          resized |-> FALSE, written |-> {}, panic |-> FALSE]
    IN  IF check # "ok" THEN skip(check)
        ELSE IF env.combineErr # "nil" THEN skip("InvalidRoute")
        ELSE IF isInIndex(idx, thumb) THEN skip("CacheHit")
        ELSE IF env.openErr # "nil" THEN skip("OutputOpenFailed")
        ELSE IF env.resizeErr # "nil"
             THEN [outcome |-> "ResizeFailed", index |-> idx, opened |-> TRUE,
                   resized |-> TRUE, written |-> {},
                   panic |-> (ErrorText(err) = "panic")]
        ELSE [outcome |-> "Built", index |-> addToIndex(idx, thumb),
              opened |-> TRUE, resized |-> TRUE, written |-> {filename},
              panic |-> FALSE]

(***************************************************************************)
(* State of the model.                                                     *)
(***************************************************************************)
ChanCap == 1

Pairs == {<<f, Dimensions[i]>> : f \in Files, i \in DOMAIN Dimensions}

NoCall == [file |-> "none", dim |-> <<0, 0>>, mimeErr |-> "nil", outcome |-> "none"]

NoBoot == [loadErr |-> "nil", dirOk |-> FALSE]

Failures == {"MimeTypeDetectionFailed", "InvalidRoute", "OutputOpenFailed",
             "ResizeFailed"}

Init ==
    /\ proc = "down"
    /\ service = FALSE
    /\ isRunning = FALSE
    /\ index = EmptyIndex
    /\ disk = NoFile
    /\ repo \in Repos
    /\ pc = "none"
    /\ initial = FALSE
    /\ passFiles = <<>>
    /\ fi = 1
    /\ di = 1
    /\ subscribed = FALSE
    /\ chan = 0
    /\ sd = "none"
    /\ openCalls = [p \in Pairs |-> 0]
    /\ written = {}
    /\ resizeCalls = [p \in Pairs |-> 0]
    /\ lifeResize = [p \in Pairs |-> 0]
    /\ lastCall = NoCall
    /\ classFailed = FALSE
    /\ passFailed = FALSE
    /\ repeat = "no"
    /\ passesStarted = 0
    /\ booted = FALSE
    /\ loadedEmpty = FALSE
    /\ events = 0
    /\ emitted = 0
    /\ boot = NoBoot
    /\ passRepo = <<>>
    /\ calls = <<>>
    /\ owed = "no"

\* What is left of the process state once the process is gone.
ProcessGone(how) ==
    /\ proc' = how
    /\ service' = FALSE
    /\ isRunning' = FALSE
    /\ index' = EmptyIndex
    /\ pc' = "none"
    /\ initial' = FALSE
    /\ passFiles' = <<>>
    /\ fi' = 1
    /\ di' = 1
    /\ subscribed' = FALSE
    /\ chan' = 0
    /\ sd' = "none"
    /\ classFailed' = FALSE
    /\ passFailed' = FALSE
    /\ repeat' = "no"
    /\ loadedEmpty' = FALSE
    /\ passRepo' = <<>>
    /\ calls' = <<>>
    /\ owed' = IF owed \in {"initial", "loop"} THEN "dead" ELSE owed

(***************************************************************************)
(* NewConversionService: load the index, create the thumbnail folder,      *)
(* build the service, start the worker and register the two hooks.         *)
(***************************************************************************)
\* Whether construction goes through to the service: a failed loadIndex is
\* only logged, a failed CreateDirectory returns nil.
constructedWithoutFolder(loadErr, dirOk) == TRUE

constructedOnlyWithIndex(loadErr, dirOk) == loadErr = "nil" /\ dirOk

constructed(loadErr, dirOk) == dirOk

NewConversionService(readErr, dirOk) ==
    /\ proc \in {"down", "crashed"}
    /\ LET cost == Event(booted) + Event(readErr # "nil") + Event(~dirOk)
       IN  /\ events + cost <= MaxEvents
           /\ events' = events + cost
    /\ booted' = TRUE
    /\ boot' = [loadErr |-> loadIndex(disk, readErr).err, dirOk |-> dirOk]
    /\ emitted' = 0
    /\ loadedEmpty' = (/\ constructed(loadIndex(disk, readErr).err, dirOk)
                       /\ loadIndex(disk, readErr).index = EmptyIndex)
    /\ proc' = "up"
    /\ lifeResize' = [p \in Pairs |-> 0]
    /\ IF constructed(loadIndex(disk, readErr).err, dirOk)
       THEN /\ service' = TRUE
            /\ isRunning' = TRUE
            /\ index' = loadIndex(disk, readErr).index
            /\ pc' = "start"
       ELSE /\ service' = FALSE
            /\ isRunning' = FALSE
            /\ index' = EmptyIndex
            /\ pc' = "none"
    /\ lastCall' = NoCall
    /\ passesStarted' = 0
    /\ UNCHANGED <<disk, repo, initial, passFiles, fi, di, subscribed, chan, sd,
                   openCalls, written, resizeCalls, classFailed, passFailed,
                   repeat, passRepo, calls, owed>>

(***************************************************************************)
(* createThumbnails: the pass.  BeginPass is its first line, one           *)
(* CreateThumbnailStep is one createThumbnail call (followed by the sleep  *)
(* after the third dimension of a file).                                   *)
(***************************************************************************)
\* Where the worker goes when createThumbnails returns: the startup pass is
\* followed by the subscription, a refresh pass by the top of the loop.
AfterPassOneShot(isInitial) == IF isInitial THEN "subscribe" ELSE "done"

AfterPass(isInitial) == IF isInitial THEN "subscribe" ELSE "loop"

BeginPass(isInitial) ==
    LET files == Flatten(repo)
    IN  /\ passFiles' = files
        /\ passRepo' = repo
        /\ calls' = <<>>
        /\ initial' = isInitial
        /\ fi' = 1
        /\ di' = 1
        /\ classFailed' = FALSE
        /\ passFailed' = FALSE
        /\ passesStarted' = passesStarted + 1
        /\ owed' = IF owed \in {"initial", "loop"} THEN "no" ELSE owed
        /\ repeat' = IF isInitial \/ files # passFiles THEN "no"
                      ELSE IF passFailed THEN "dirty" ELSE "clean"
        /\ pc' = IF files = <<>> THEN AfterPass(isInitial) ELSE "pass"

StartConversion ==
    /\ proc = "up"
    /\ pc = "start"
    /\ BeginPass(TRUE)
    /\ UNCHANGED <<proc, service, isRunning, index, disk, repo, subscribed, chan,
                   sd, openCalls, written, resizeCalls, lifeResize, lastCall,
                   booted, loadedEmpty, events, emitted, boot>>

CreateThumbnailStep(env) ==
    /\ proc = "up"
    /\ pc = "pass"
    /\ events + Event(env # NoError) <= MaxEvents
    /\ events' = events + Event(env # NoError)
    /\ LET f      == passFiles[fi]
           dim    == Dimensions[di]
           r      == createThumbnail(index, f, dim[1], dim[2], env)
           failed == r.outcome \in Failures
       IN  /\ openCalls' = IF r.opened
                           THEN [openCalls EXCEPT ![<<f, dim>>] = @ + 1]
                           ELSE openCalls
           /\ resizeCalls' = IF r.resized
                             THEN [resizeCalls EXCEPT ![<<f, dim>>] = @ + 1]
                             ELSE resizeCalls
           /\ written' = written \cup r.written
           /\ lastCall' = [file |-> f, dim |-> dim, mimeErr |-> env.mimeErr,
                           outcome |-> r.outcome]
           /\ lifeResize' = IF r.resized
                            THEN [lifeResize EXCEPT ![<<f, dim>>] = @ + 1]
                            ELSE lifeResize
           /\ IF r.panic
              THEN ProcessGone("crashed")
              ELSE /\ index' = r.index
                   /\ di' = IF di < Len(Dimensions) THEN di + 1 ELSE 1
                   /\ fi' = IF di < Len(Dimensions) THEN fi ELSE fi + 1
                   /\ classFailed' = IF di < Len(Dimensions)
                                     THEN classFailed
                                          \/ r.outcome = "MimeTypeDetectionFailed"
                                     ELSE FALSE
                   /\ passFailed' = (passFailed \/ failed)
                   /\ pc' = IF di < Len(Dimensions) THEN "pass" ELSE "sleep"
                   /\ calls' = Append(calls, <<f, dim>>)
                   /\ UNCHANGED <<proc, service, isRunning, initial, passFiles,
                                  subscribed, chan, sd, owed, repeat, loadedEmpty,
                                  passRepo>>
    /\ UNCHANGED <<disk, repo, passesStarted, booted, emitted, boot>>

\* time.Sleep after the three calls of a file: the pass is still in progress.
\* After it the loops go on to the next file or, after the last file,
\* createThumbnails returns.
Sleep ==
    /\ proc = "up"
    /\ pc = "sleep"
    /\ pc' = IF fi <= Len(passFiles) THEN "pass" ELSE AfterPass(initial)
    /\ UNCHANGED <<proc, service, isRunning, index, disk, repo, initial,
                   passFiles, fi, di, subscribed, chan, sd, openCalls, written,
                   resizeCalls, lifeResize, lastCall, classFailed, passFailed,
                   repeat, passesStarted, booted, loadedEmpty, events, emitted,
                   boot, passRepo, calls, owed>>

\* createThumbnails has been called and has not returned.
InPass == pc \in {"pass", "sleep"}

(***************************************************************************)
(* startConversion after the first pass: make the channel, subscribe,      *)
(* start the refresh loop.                                                 *)
(***************************************************************************)
SubscribeWithSignal ==
    /\ proc = "up"
    /\ pc = "subscribe"
    /\ subscribed' = TRUE
    /\ chan' = ChanCap
    /\ pc' = "loop"
    /\ UNCHANGED <<proc, service, isRunning, index, disk, repo, initial,
                   passFiles, fi, di, sd, openCalls, written, resizeCalls,
                   lifeResize, lastCall, classFailed, passFailed, repeat,
                   passesStarted, booted, loadedEmpty, events, emitted, boot,
                   passRepo, calls, owed>>

Subscribe ==
    /\ proc = "up"
    /\ pc = "subscribe"
    /\ subscribed' = TRUE
    /\ chan' = 0
    /\ pc' = "loop"
    /\ UNCHANGED <<proc, service, isRunning, index, disk, repo, initial,
                   passFiles, fi, di, sd, openCalls, written, resizeCalls,
                   lifeResize, lastCall, classFailed, passFailed, repeat,
                   passesStarted, booted, loadedEmpty, events, emitted, boot,
                   passRepo, calls, owed>>

\* for conversion.isRunning: an unsynchronised read, which sees the current
\* value or the value from before a concurrent write (TRUE).
LoopCheck(seen) ==
    /\ proc = "up"
    /\ pc = "loop"
    /\ seen \in {isRunning, TRUE}
    /\ pc' = IF seen THEN "select" ELSE "done"
    /\ UNCHANGED <<proc, service, isRunning, index, disk, repo, initial,
                   passFiles, fi, di, subscribed, chan, sd, openCalls, written,
                   resizeCalls, lifeResize, lastCall, classFailed, passFailed,
                   repeat, passesStarted, booted, loadedEmpty, events, emitted, boot,
                   passRepo, calls, owed>>

ReceiveDuringPass ==
    /\ proc = "up"
    /\ pc \in {"select", "pass", "sleep"}
    /\ chan > 0
    /\ chan' = chan - 1
    /\ BeginPass(FALSE)
    /\ UNCHANGED <<proc, service, isRunning, index, disk, repo, subscribed, sd,
                   openCalls, written, resizeCalls, lifeResize, lastCall,
                   booted, loadedEmpty, events, emitted, boot>>

\* case <-updateChannel: createThumbnails()
Receive ==
    /\ proc = "up"
    /\ pc = "select"
    /\ chan > 0
    /\ chan' = chan - 1
    /\ BeginPass(FALSE)
    /\ UNCHANGED <<proc, service, isRunning, index, disk, repo, subscribed, sd,
                   openCalls, written, resizeCalls, lifeResize, lastCall,
                   booted, loadedEmpty, events, emitted, boot>>

(***************************************************************************)
(* The repository reindexes: its content may change, and it signals every  *)
(* registered channel; a signal that finds the buffer full is coalesced.   *)
(***************************************************************************)
Notify(c, isSubscribed) ==
    IF isSubscribed /\ c < ChanCap THEN c + 1 ELSE c

Reindex(newRepo) ==
    /\ proc = "up"
    /\ events < MaxEvents
    /\ events' = events + 1
    /\ emitted' = emitted + 1
    /\ repo' = newRepo
    /\ chan' = Notify(chan, subscribed)
    /\ owed' = IF InPass /\ isRunning /\ owed \in {"no", "dead"}
               THEN (IF initial THEN "initial" ELSE "loop")
               ELSE owed
    /\ UNCHANGED <<proc, service, isRunning, index, disk, pc, initial, passFiles,
                   fi, di, subscribed, sd, openCalls, written, resizeCalls,
                   lifeResize, lastCall, classFailed, passFailed, repeat,
                   passesStarted, booted, loadedEmpty, boot, passRepo, calls>>

(***************************************************************************)
(* Shutdown: the stop hook, then the index-save hook, then the process     *)
(* ends.  The worker keeps running until the process ends.                 *)
(***************************************************************************)
StopHook ==
    /\ proc = "up"
    /\ service
    /\ sd = "none"
    /\ isRunning' = FALSE
    /\ sd' = "stop"
    /\ UNCHANGED <<proc, service, index, disk, repo, pc, initial, passFiles, fi,
                   di, subscribed, chan, openCalls, written, resizeCalls,
                   lifeResize, lastCall, classFailed, passFailed, repeat,
                   passesStarted, booted, loadedEmpty, events, emitted, boot,
                   passRepo, calls, owed>>

\* The map write that the pending createThumbnail call makes when it builds.
WriteInProgress ==
    /\ pc = "pass"
    /\ createThumbnail(index, passFiles[fi], Dimensions[di][1],
                       Dimensions[di][2], NoError).outcome = "Built"

\* The createThumbnail call that is inside the map write of addToIndex when
\* the runtime ends the process: it has opened its target, and Resize has
\* written the thumbnail; its record dies with the process.
RacedCall ==
    LET f   == passFiles[fi]
        dim == Dimensions[di]
        r   == createThumbnail(index, f, dim[1], dim[2], NoError)
    IN  /\ openCalls' = [openCalls EXCEPT ![<<f, dim>>] = @ + 1]
        /\ resizeCalls' = [resizeCalls EXCEPT ![<<f, dim>>] = @ + 1]
        /\ lifeResize' = [lifeResize EXCEPT ![<<f, dim>>] = @ + 1]
        /\ written' = written \cup r.written
        /\ lastCall' = [file |-> f, dim |-> dim, mimeErr |-> "nil",
                        outcome |-> "FatalMapAccess"]
        /\ ProcessGone("crashed")

\* The hook closes over the map that loadIndex returned, which is the map of
\* the service: it saves what the worker has inserted, not what was loaded.
SaveHookLoadedIndex(writeErr, fatal) ==
    /\ proc = "up"
    /\ service
    /\ sd = "stop"
    /\ fatal => (WriteInProgress /\ writeErr = "nil")
    /\ events + Event(writeErr # "nil") + Event(fatal) <= MaxEvents
    /\ events' = events + Event(writeErr # "nil") + Event(fatal)
    /\ IF fatal
       THEN /\ RacedCall
            /\ UNCHANGED disk
       ELSE /\ disk' = saveIndex(IF loadedEmpty THEN EmptyIndex ELSE disk.index,
                               disk, writeErr)
            /\ sd' = "save"
            /\ UNCHANGED <<proc, service, isRunning, index, pc, initial,
                           passFiles, fi, di, subscribed, chan, classFailed,
                           passFailed, repeat, loadedEmpty, passRepo, calls,
                           owed, openCalls, written, resizeCalls, lifeResize,
                           lastCall>>
    /\ UNCHANGED <<repo, passesStarted, booted, emitted, boot>>

\* saveIndex reads the map in the shutdown goroutine, without any
\* synchronisation with the worker.  When it overlaps a map write of the
\* worker, the runtime either lets it read the map as it is before or after
\* the write, or ends the process ("concurrent map iteration and map write")
\* with the worker inside that write.  saveIndex writes the file whole or not
\* at all, so the file is as it was when the process ends inside the hook.
SaveHook(writeErr, fatal) ==
    /\ proc = "up"
    /\ service
    /\ sd = "stop"
    /\ fatal => (WriteInProgress /\ writeErr = "nil")
    /\ events + Event(writeErr # "nil") + Event(fatal) <= MaxEvents
    /\ events' = events + Event(writeErr # "nil") + Event(fatal)
    /\ IF fatal
       THEN /\ RacedCall
            /\ UNCHANGED disk
       ELSE /\ disk' = saveIndex(index, disk, writeErr)
            /\ sd' = "save"
            /\ UNCHANGED <<proc, service, isRunning, index, pc, initial,
                           passFiles, fi, di, subscribed, chan, classFailed,
                           passFailed, repeat, loadedEmpty, passRepo, calls,
                           owed, openCalls, written, resizeCalls, lifeResize,
                           lastCall>>
    /\ UNCHANGED <<repo, passesStarted, booted, emitted, boot>>

Exit ==
    /\ proc = "up"
    /\ service => sd = "save"
    /\ ProcessGone("down")
    /\ UNCHANGED <<disk, repo, openCalls, written, resizeCalls, lifeResize,
                   lastCall, passesStarted, booted, events, emitted, boot>>

Next ==
    \/ \E readErr \in Errors, dirOk \in BOOLEAN : NewConversionService(readErr, dirOk)
    \/ StartConversion
    \/ \E env \in Envs : CreateThumbnailStep(env)
    \/ Sleep
    \/ Subscribe
    \/ \E seen \in BOOLEAN : LoopCheck(seen)
    \/ Receive
    \/ \E newRepo \in Repos : Reindex(newRepo)
    \/ StopHook
    \/ \E writeErr \in Errors, fatal \in BOOLEAN : SaveHook(writeErr, fatal)
    \/ Exit

Spec == Init /\ [][Next]_vars

\* The worker goroutine is scheduled whenever it can take a step.
Worker ==
    \/ StartConversion
    \/ \E env \in Envs : CreateThumbnailStep(env)
    \/ Sleep
    \/ Subscribe
    \/ \E seen \in BOOLEAN : LoopCheck(seen)
    \/ Receive

\* One lifetime of the process, from its first start to its end, with the
\* worker scheduled fairly.
LifeNext ==
    \/ \E readErr \in Errors, dirOk \in BOOLEAN :
           ~booted /\ NewConversionService(readErr, dirOk)
    \/ StartConversion
    \/ \E env \in Envs : CreateThumbnailStep(env)
    \/ Sleep
    \/ Subscribe
    \/ \E seen \in BOOLEAN : LoopCheck(seen)
    \/ Receive
    \/ \E newRepo \in Repos : Reindex(newRepo)
    \/ StopHook
    \/ \E writeErr \in Errors, fatal \in BOOLEAN : SaveHook(writeErr, fatal)
    \/ Exit

FairSpec == Init /\ [][LifeNext]_vars /\ WF_vars(Worker)

(***************************************************************************)
(* Observers used by the properties below.                                 *)
(***************************************************************************)
RouteOf(f) == Combine(FileParent(f), FileRoute(f))

KeyOf(dim) == DimensionsString([MaxWidth |-> dim[1], MaxHeight |-> dim[2]])

NameOf(f, dim) ==
    Filename(f, dim[1], dim[2], GetFileExtensionFromMimeType(FileMime(f)))

HasRecord(idx, f, dim) ==
    /\ RouteOf(f) \in DOMAIN idx
    /\ KeyOf(dim) \in DOMAIN idx[RouteOf(f)]

RecordKeys(idx) == UNION {{<<r, k>> : k \in DOMAIN idx[r]} : r \in DOMAIN idx}

Supported(f) == MimeTypeIsSupported(FileMime(f))

DimSet == {Dimensions[i] : i \in DOMAIN Dimensions}

PassFileSet == {passFiles[i] : i \in DOMAIN passFiles}

(***************************************************************************)
(* C1  Cache-hit skip: no step opens an output target or invokes Resize    *)
(* for a (file, dimension) whose identity is in the index before the step. *)
(***************************************************************************)
C1_CacheHitSkip ==
    [][\A p \in Pairs :
          HasRecord(index, p[1], p[2])
              => /\ openCalls'[p] = openCalls[p]
                 /\ resizeCalls'[p] = resizeCalls[p]]_vars

\* A createThumbnail call found its identity in the index and skipped it.
C1_Witness ==
    /\ lastCall.outcome = "CacheHit"
    /\ HasRecord(index, lastCall.file, lastCall.dim)

(***************************************************************************)
(* C2  Idempotence as claimed: a pass over the same files as the pass      *)
(* before it invokes no Resize and leaves the index as it was.             *)
(***************************************************************************)
C2_Idempotence ==
    [][(proc = "up" /\ pc = "pass" /\ repeat \in {"clean", "dirty"})
          => /\ resizeCalls' = resizeCalls
             /\ (proc' = "up" => index' = index)]_vars

(***************************************************************************)
(* C2 amended: a pass over the same files as the pass before it, when no   *)
(* createThumbnail call of that earlier pass failed, invokes no Resize and *)
(* leaves the index as it was.                                             *)
(***************************************************************************)
C2_IdempotenceAfterCleanPass ==
    [][(proc = "up" /\ pc = "pass" /\ repeat = "clean")
          => /\ resizeCalls' = resizeCalls
             /\ openCalls' = openCalls
             /\ (proc' = "up" => index' = index)]_vars

\* The second of two passes over the same files is over; the first was clean
\* and left records that the second one found.
C2_Witness ==
    /\ repeat = "clean"
    /\ pc = "loop"
    /\ passesStarted = 2
    /\ \E f \in PassFileSet : \A d \in DimSet : HasRecord(index, f, d)

(***************************************************************************)
(* C3  At-most-once across restarts as claimed: Resize is invoked at most  *)
(* once for each (file, dimension), whatever the sequence of passes,       *)
(* notifications, shutdowns and restarts.                                  *)
(***************************************************************************)
C3_AtMostOnceAcrossRestarts == \A p \in Pairs : resizeCalls[p] <= 1

(***************************************************************************)
(* C3 amended: between one start of the process and its end, Resize is     *)
(* invoked at most once for each (file, dimension).                        *)
(***************************************************************************)
C3_AtMostOncePerLifetime == \A p \in Pairs : lifeResize[p] <= 1

\* A restarted process skipped, in its startup pass, a thumbnail that an
\* earlier process had built and the index-save hook had saved.
C3_Witness ==
    /\ proc = "up"
    /\ passesStarted = 1
    /\ lastCall.outcome = "CacheHit"
    /\ resizeCalls[<<lastCall.file, lastCall.dim>>] = 1
    /\ lifeResize[<<lastCall.file, lastCall.dim>>] = 0

(***************************************************************************)
(* C4  Error isolation: a failure of a createThumbnail call (media type    *)
(* detection, route combination, output open, resize) never ends the       *)
(* worker: the process is still up after it.                               *)
(***************************************************************************)
C4_ErrorIsolation == lastCall.outcome \in Failures => proc # "crashed"

(***************************************************************************)
(* C5  Retry after resize failure: after a resize failure at (400,0) for a *)
(* file whose (200,0) thumbnail was built, the pass goes on to (800,0) of  *)
(* the same file and the index still holds the (200,0) record.             *)
(***************************************************************************)
C5_RetryAfterResizeFailure ==
    (/\ lastCall.outcome = "ResizeFailed"
     /\ lastCall.dim = <<400, 0>>
     /\ lifeResize[<<lastCall.file, <<200, 0>>>>] = 1)
        => /\ proc = "up"
           /\ pc = "pass"
           /\ passFiles[fi] = lastCall.file
           /\ Dimensions[di] = <<800, 0>>
           /\ HasRecord(index, lastCall.file, <<200, 0>>)

(***************************************************************************)
(* C6  Unsupported-type skip: for a file whose media type is not supported *)
(* no output target is ever opened, no output file written and no index    *)
(* entry inserted (in memory or on disk), at any dimension.                *)
(***************************************************************************)
C6_UnsupportedTypeSkip ==
    \A f \in Files : \A d \in DimSet :
        ~Supported(f)
            => /\ openCalls[<<f, d>>] = 0
               /\ resizeCalls[<<f, d>>] = 0
               /\ NameOf(f, d) \notin written
               /\ ~HasRecord(index, f, d)
               /\ ~HasRecord(disk.index, f, d)

\* The three calls for an unsupported file are over.
C6_Witness ==
    /\ lastCall.outcome = "UnsupportedMediaType"
    /\ ~Supported(lastCall.file)
    /\ lastCall.dim = <<800, 0>>

(***************************************************************************)
(* C7  Classification failure skips the whole file, as claimed: once       *)
(* MimeType() failed for a file in a pass, no later call for that file in  *)
(* the pass invokes Resize or inserts a record.                            *)
(***************************************************************************)
C7_ClassificationFailureSkipsFile ==
    [][(proc = "up" /\ pc = "pass" /\ classFailed)
          => /\ resizeCalls' = resizeCalls
             /\ (proc' = "up" => index' = index)]_vars

(***************************************************************************)
(* C7 amended: a createThumbnail call in which MimeType() fails opens      *)
(* nothing, resizes nothing and inserts nothing, and the worker goes on to *)
(* the next dimension of the same file, which classifies again.            *)
(***************************************************************************)
C7_ClassificationFailureSkipsCall ==
    [][(proc = "up" /\ pc = "pass" /\ lastCall' # lastCall
            /\ lastCall'.mimeErr # "nil")
          => /\ index' = index
             /\ openCalls' = openCalls
             /\ resizeCalls' = resizeCalls
             /\ written' = written
             /\ proc' = "up"
             /\ (di < Len(Dimensions)
                    => pc' = "pass" /\ fi' = fi /\ di' = di + 1)]_vars

\* After a classification failure at an earlier dimension of the file, a
\* later dimension of the same file was classified and built.
C7_Witness ==
    /\ classFailed
    /\ lastCall.outcome = "Built"
    /\ HasRecord(index, lastCall.file, lastCall.dim)

(***************************************************************************)
(* C8  No lost notification, as claimed: a reindex notification emitted    *)
(* while a pass is in progress (the startup pass included) and the run     *)
(* flag is true is eventually followed by the start of another pass (the   *)
(* run flag turning false, or the process ending, aside).                  *)
(***************************************************************************)
C8_NoLostNotification ==
    (owed \in {"initial", "loop"}) ~> \/ owed = "no"
                                      \/ owed = "dead"
                                      \/ ~isRunning

(***************************************************************************)
(* C8 amended: a reindex notification emitted while a pass started by the  *)
(* refresh loop is in progress (so after the subscription, not during the  *)
(* startup pass) and the run flag is true is eventually followed by the    *)
(* start of another pass (the loop ending on a false run flag, or the      *)
(* process ending, aside).                                                 *)
(***************************************************************************)
C8_NoLostNotificationInLoop ==
    (owed = "loop") ~> \/ owed = "no"
                       \/ owed = "dead"
                       \/ (pc = "done" /\ ~isRunning)

\* A notification arrived during a pass of the refresh loop and is buffered.
C8_Witness ==
    /\ owed = "loop"
    /\ pc = "pass"
    /\ ~initial
    /\ chan = ChanCap

(***************************************************************************)
(* C9  Stop halts further passes: once the stop hook has set the run flag  *)
(* to false, the refresh loop starts no pass, whatever notifications       *)
(* arrive.                                                                 *)
(***************************************************************************)
C9_StopHaltsPasses ==
    [][(proc = "up" /\ service /\ subscribed /\ ~isRunning)
          => passesStarted' = passesStarted]_vars

(***************************************************************************)
(* C10  Result of a full pass: when the startup pass of a process that     *)
(* started with an empty index is over and no call of it failed, the index *)
(* holds exactly one record per (supported file, dimension), each under    *)
(* the file's combined route with the generated name, none for an          *)
(* unsupported file, and three output files were written per supported     *)
(* file and none per unsupported file.                                     *)
(***************************************************************************)
C10_FullPassResult ==
    (pc = "subscribe" /\ loadedEmpty /\ ~passFailed)
        => /\ RecordKeys(index) =
                  {<<RouteOf(f), KeyOf(d)>> :
                       f \in {g \in PassFileSet : Supported(g)}, d \in DimSet}
           /\ \A f \in PassFileSet : \A d \in DimSet :
                  IF Supported(f)
                  THEN /\ index[RouteOf(f)][KeyOf(d)] =
                              newThumb(RouteOf(f), NameOf(f, d), d[1], d[2])
                       /\ lifeResize[<<f, d>>] = 1
                       /\ NameOf(f, d) \in written
                  ELSE /\ lifeResize[<<f, d>>] = 0
                       /\ NameOf(f, d) \notin written
           /\ \A f \in PassFileSet :
                  Supported(f)
                      => Cardinality({NameOf(f, d) : d \in DimSet}) = 3

\* The startup pass over a supported and an unsupported file is over.
C10_Witness ==
    /\ pc = "subscribe"
    /\ loadedEmpty
    /\ ~passFailed
    /\ \E f \in PassFileSet : Supported(f)
    /\ \E f \in PassFileSet : ~Supported(f)
    /\ Cardinality(RecordKeys(index)) = 3

(***************************************************************************)
(* C11  Exclusive index access: the index-save hook never reads the index  *)
(* while a pass, which can insert records into it, is in progress.         *)
(***************************************************************************)
C11_ExclusiveIndexAccess ==
    [][(proc = "up" /\ sd = "stop" /\ sd' = "save") => ~InPass]_vars

(***************************************************************************)
(* C12  Pass triggering: a process with a service has started its startup  *)
(* pass as soon as the worker runs, a process without one starts no pass,  *)
(* and the passes started never exceed 1 plus the notifications the        *)
(* repository has emitted since the process started.                       *)
(***************************************************************************)
C12_PassTriggering ==
    proc = "up"
        => /\ passesStarted <= 1 + emitted
           /\ (service /\ pc # "start") => passesStarted >= 1
           /\ ~service => passesStarted = 0

\* Two notifications were emitted and one refresh pass consumed what was
\* left of them: two passes in all, nothing buffered.
C12_Witness ==
    /\ proc = "up"
    /\ emitted = 2
    /\ passesStarted = 2
    /\ pc = "loop"
    /\ chan = 0

(***************************************************************************)
(* C13  Fatal construction failure: in a process in which CreateDirectory  *)
(* failed there is no service, no worker (no pass ever starts, nothing is  *)
(* subscribed) and no shutdown hook of the service ever runs.              *)
(***************************************************************************)
C13_FatalConstructionFailure ==
    (proc = "up" /\ ~boot.dirOk)
        => /\ ~service
           /\ ~isRunning
           /\ pc = "none"
           /\ passesStarted = 0
           /\ ~subscribed
           /\ sd = "none"

\* The thumbnail folder could not be created, and the repository has
\* reindexed since.
C13_Witness ==
    /\ proc = "up"
    /\ ~boot.dirOk
    /\ emitted > 0

(***************************************************************************)
(* C14  Tolerant index load: in a process in which loadIndex failed and    *)
(* the folder was created, the service exists and the worker was started   *)
(* with an empty index: the index holds nothing before the first pass, and *)
(* then exactly the records of the thumbnails this process has built.      *)
(***************************************************************************)
C14_TolerantIndexLoad ==
    (proc = "up" /\ boot.loadErr # "nil" /\ boot.dirOk)
        => /\ service
           /\ pc # "none"
           /\ pc = "start" => index = EmptyIndex
           /\ sd = "none" => isRunning
           /\ \A p \in Pairs :
                  HasRecord(index, p[1], p[2]) => lifeResize[p] = 1
           /\ lastCall.outcome = "Built"
                  => HasRecord(index, lastCall.file, lastCall.dim)

\* An index file with records exists but could not be loaded; the process
\* started all the same and has built a thumbnail into its empty index.
C14_Witness ==
    /\ proc = "up"
    /\ boot.loadErr # "nil"
    /\ disk.present
    /\ disk.index # EmptyIndex
    /\ lastCall.outcome = "Built"
    /\ HasRecord(index, lastCall.file, lastCall.dim)

(***************************************************************************)
(* C15  Shutdown persistence: the index file changes only in a step of     *)
(* the index-save hook, and after it the file holds the index of the       *)
(* service as it is at that moment, with every record the worker has       *)
(* inserted so far.                                                        *)
(***************************************************************************)
C15_ShutdownPersistence ==
    [][/\ disk' # disk => (proc = "up" /\ sd = "stop" /\ sd' = "save")
       /\ (proc = "up" /\ sd = "stop" /\ sd' = "save" /\ disk'.present)
              => (disk' = disk \/ disk'.index = index)
       /\ (proc = "up" /\ sd = "stop" /\ sd' = "save" /\ disk' # disk)
              => \A p \in Pairs :
                     (lifeResize[p] = 1 /\ HasRecord(index, p[1], p[2]))
                         => HasRecord(disk'.index, p[1], p[2])]_vars

\* The hook has saved an index with a record this process inserted.
C15_Witness ==
    /\ proc = "up"
    /\ sd = "save"
    /\ disk.present
    /\ disk.index = index
    /\ \E p \in Pairs : lifeResize[p] = 1 /\ HasRecord(disk.index, p[1], p[2])

(***************************************************************************)
(* C16  Records only after success: within a process, a step that puts a   *)
(* record for a (file, dimension) into the index is a createThumbnail call *)
(* for that pair which opened the output target, invoked Resize and wrote  *)
(* the output file; a call whose open or resize failed inserts nothing.    *)
(***************************************************************************)
C16_RecordsOnlyAfterSuccess ==
    [][proc = "up"
          => /\ \A p \in Pairs :
                    (~HasRecord(index, p[1], p[2]) /\ HasRecord(index', p[1], p[2]))
                        => /\ lastCall' = [file |-> p[1], dim |-> p[2],
                                           mimeErr |-> "nil", outcome |-> "Built"]
                           /\ openCalls'[p] = openCalls[p] + 1
                           /\ resizeCalls'[p] = resizeCalls[p] + 1
                           /\ NameOf(p[1], p[2]) \in written'
             /\ (pc = "pass" /\ calls' # calls
                     /\ lastCall'.outcome \in {"OutputOpenFailed", "ResizeFailed"})
                        => RecordKeys(index') \subseteq RecordKeys(index)]_vars

\* A call of the pass in progress failed at or before the open and left no
\* record; a later call of the pass built its thumbnail and inserted it.
C16_Witness ==
    /\ proc = "up"
    /\ lastCall.outcome = "Built"
    /\ HasRecord(index, lastCall.file, lastCall.dim)
    /\ openCalls[<<lastCall.file, lastCall.dim>>] = 1
    /\ \E p \in Pairs : /\ Supported(p[1])
                        /\ openCalls[p] = 0
                        /\ ~HasRecord(index, p[1], p[2])
                        /\ \E k \in DOMAIN calls : calls[k] = p

(***************************************************************************)
(* C17  Append-only index: while the process runs, every record of the     *)
(* index stays in it unchanged at every step, also records of files the    *)
(* repository no longer enumerates.                                        *)
(***************************************************************************)
C17_AppendOnlyIndex ==
    [][(proc = "up" /\ proc' = "up")
          => \A rk \in RecordKeys(index) :
                 /\ rk \in RecordKeys(index')
                 /\ index'[rk[1]][rk[2]] = index[rk[1]][rk[2]]]_vars

\* After a reindex that dropped a file, a refresh pass has built the three
\* thumbnails of a new file, and the three records of the dropped file are
\* still there.
C17_Witness ==
    /\ proc = "up"
    /\ passesStarted = 2
    /\ pc = "loop"
    /\ \E f \in Files \ PassFileSet : \A d \in DimSet : HasRecord(index, f, d)
    /\ \E f \in PassFileSet : /\ \A d \in DimSet : HasRecord(index, f, d)
                              /\ \A d \in DimSet : lifeResize[<<f, d>>] = 1
    /\ Cardinality(RecordKeys(index)) = 6

(***************************************************************************)
(* C18  Visit order within a pass: the k-th createThumbnail call of a pass *)
(* is for the file at position (k-1) div 3 + 1 of the repository's         *)
(* enumeration (items in order, the files of an item in order) and for the *)
(* dimension (200,0), (400,0) or (800,0) as (k-1) mod 3 is 0, 1 or 2; a    *)
(* finished pass has made three calls per file.                            *)
(***************************************************************************)
RECURSIVE FileAt(_, _)
FileAt(items, n) ==
    IF n <= Len(Head(items)) THEN Head(items)[n]
    ELSE FileAt(Tail(items), n - Len(Head(items)))

C18_VisitOrder ==
    /\ \A k \in DOMAIN calls :
           /\ calls[k][1] = FileAt(passRepo, ((k - 1) \div 3) + 1)
           /\ calls[k][2] = CASE (k - 1) % 3 = 0 -> <<200, 0>>
                              [] (k - 1) % 3 = 1 -> <<400, 0>>
                              [] (k - 1) % 3 = 2 -> <<800, 0>>
    /\ (proc = "up" /\ passesStarted > 0 /\ ~InPass)
           => Len(calls) = 3 * Len(passFiles)

\* A pass over two items with one file each is over: six calls.
C18_Witness ==
    /\ proc = "up"
    /\ pc = "subscribe"
    /\ Len(passRepo) = 2
    /\ Len(calls) = 6
    /\ calls[3][1] # calls[4][1]

(***************************************************************************)
(* C19  Passes never overlap: a pass starts only from a position of the    *)
(* worker outside any pass (the startup call, or the receive of the        *)
(* refresh loop after the pass before it made all its calls); while the    *)
(* startup pass runs nothing is subscribed, and once the channel is        *)
(* subscribed the startup pass is over.                                    *)
(***************************************************************************)
C19_PassesNeverOverlap ==
    [][/\ passesStarted' = passesStarted + 1
              => /\ pc \in {"start", "select"}
                 /\ pc = "start" => (passesStarted = 0 /\ ~subscribed)
                 /\ pc = "select" => (/\ subscribed
                                      /\ passesStarted >= 1
                                      /\ Len(calls) = 3 * Len(passFiles))
       /\ (InPass' /\ initial') => (~subscribed' /\ passesStarted' = 1)
       /\ subscribed' => (passesStarted' >= 1 /\ ~(InPass' /\ initial'))]_vars

\* A refresh pass is in progress after the startup pass and the
\* subscription, with a further notification already buffered.
C19_Witness ==
    /\ proc = "up"
    /\ pc = "pass"
    /\ ~initial
    /\ subscribed
    /\ passesStarted = 2
    /\ chan = ChanCap
    /\ Len(calls) > 0

(***************************************************************************)
(* C20  Worker termination on stop: once the stop hook has run, the        *)
(* refresh loop eventually exits (or the process ends).                    *)
(***************************************************************************)
C20_WorkerTerminatesOnStop ==
    (proc = "up" /\ sd # "none") ~> (pc = "done" \/ proc # "up")

====
